---- MODULE Spec2Model ----
(***************************************************************************)
(* Model of Re-cal.py, a Streamlit page that computes the seepage Reynolds *)
(* number Re = v*rho*sqrt(K) / (17.50*mu*phi^1.5), plots a sweep of it and *)
(* exports Word/PDF reports.                                               *)
(*                                                                         *)
(* Streamlit re-executes the whole script, top to bottom and in a fresh    *)
(* namespace, on every widget event.  One action of the model is one such  *)
(* script run ("render pass"): the widget values and the selected option   *)
(* persist between runs, everything else is rebuilt by the run.            *)
(*                                                                         *)
(* Numbers.  The widget values are rationals [n, d].  Python's doubles are *)
(* modelled as exact reals (no rounding, no overflow of the double range), *)
(* which is the reading "within floating-point tolerance" asks for:        *)
(* a non-negative real is zero, or "pos" with h the map prime -> exponent  *)
(* of its SQUARE, i.e. the value is the product of p^(h[p]/2).  This set   *)
(* is closed under product, quotient and the two powers the script uses    *)
(* (power 0.5 and power 1.5 of a rational), so sqrt(K) and phi^1.5 are     *)
(* exact.  "inf" and "nan" are numpy's results of a division by zero.      *)
(***************************************************************************)
EXTENDS Integers, Sequences, FiniteSets, TLC

VARIABLES v, K, rho, mu, phi, option, button, Re, msg, fig, df, report, error

inputs == <<v, K, rho, mu, phi>>
vars == <<v, K, rho, mu, phi, option, button, Re, msg, fig, df, report, error>>

-----------------------------------------------------------------------------
(* Rationals: the numbers typed into the widgets and the linspace samples. *)

RECURSIVE GCD(_, _)
GCD(a, b) == IF b = 0 THEN a ELSE GCD(b, a % b)

Abs(a) == IF a < 0 THEN -a ELSE a

Rat(n, d) ==
    LET g == GCD(Abs(n), d)
    IN [n |-> n \div g, d |-> d \div g]

RatAdd(a, b) == Rat(a.n * b.d + b.n * a.d, a.d * b.d)
RatSub(a, b) == Rat(a.n * b.d - b.n * a.d, a.d * b.d)
RatMul(a, b) == Rat(a.n * b.n, a.d * b.d)
RatDivInt(a, k) == Rat(a.n, a.d * k)
RatLess(a, b) == a.n * b.d < b.n * a.d
RatLeq(a, b) == a.n * b.d <= b.n * a.d
RatPositive(a) == a.n > 0

-----------------------------------------------------------------------------
(* Reals of the form prod p^(h[p]/2), with zero, inf and nan.              *)

EmptyMap == [p \in {} |-> 0]

CeilSqrt(n) == CHOOSE r \in 1..n : r * r >= n

LeastDiv(n) ==
    LET D == {p \in 2..CeilSqrt(n) : n % p = 0}
    IN IF D = {} \/ n < 4 THEN n ELSE CHOOSE p \in D : \A q \in D : p <= q

At(h, p) == IF p \in DOMAIN h THEN h[p] ELSE 0

Norm(h) == [p \in {q \in DOMAIN h : h[q] # 0} |-> h[p]]

RECURSIVE Factor(_)
Factor(n) ==
    IF n = 1 THEN EmptyMap
    ELSE LET p == LeastDiv(n)
             r == Factor(n \div p)
         IN [q \in (DOMAIN r) \cup {p} |-> IF q = p THEN At(r, p) + 1 ELSE r[q]]

HMul(a, b) == Norm([p \in DOMAIN a \cup DOMAIN b |-> At(a, p) + At(b, p)])
HDiv(a, b) == Norm([p \in DOMAIN a \cup DOMAIN b |-> At(a, p) - At(b, p)])
HScale(a, k) == [p \in DOMAIN a |-> a[p] * k]
HHalf(a) == [p \in DOMAIN a |-> a[p] \div 2]

Zero == [k |-> "zero", h |-> EmptyMap]
Inf == [k |-> "inf", h |-> EmptyMap]
NaN == [k |-> "nan", h |-> EmptyMap]
Pos(h) == [k |-> "pos", h |-> h]

\* float(q) for a rational q >= 0
Real(q) ==
    IF q.n = 0 THEN Zero
    ELSE Pos(HDiv(HScale(Factor(q.n), 2), HScale(Factor(q.d), 2)))

\* a * b
Mul(a, b) ==
    IF a.k = "nan" \/ b.k = "nan" THEN NaN
    ELSE IF a.k = "inf" \/ b.k = "inf"
         THEN (IF a.k = "zero" \/ b.k = "zero" THEN NaN ELSE Inf)
    ELSE IF a.k = "zero" \/ b.k = "zero" THEN Zero
    ELSE Pos(HMul(a.h, b.h))

\* a / b, with numpy's results for a zero divisor (inf, or nan for 0/0)
Div(a, b) ==
    IF a.k = "nan" \/ b.k = "nan" THEN NaN
    ELSE IF b.k = "zero" THEN (IF a.k = "zero" THEN NaN ELSE Inf)
    ELSE IF b.k = "inf" THEN (IF a.k = "inf" THEN NaN ELSE Zero)
    ELSE IF a.k = "zero" THEN Zero
    ELSE IF a.k = "inf" THEN Inf
    ELSE Pos(HDiv(a.h, b.h))

\* a ** (t/2) for a rational-valued a >= 0 and t in {1, 3}
Pow(a, t) ==
    IF a.k = "pos" THEN Pos(HScale(HHalf(a.h), t)) ELSE a

RECURSIVE SetGCD(_)
SetGCD(S) ==
    IF S = {} THEN 0
    ELSE LET x == CHOOSE y \in S : TRUE IN GCD(x, SetGCD(S \ {x}))

RECURSIVE Prod(_, _, _)
\* the product of p^(sign * h[p] / g) over the primes of P
Prod(h, P, g) ==
    IF P = {} THEN 1
    ELSE LET p == CHOOSE q \in P : TRUE
             e == Abs(h[p]) \div g
             pw[i \in 0..e] == IF i = 0 THEN 1 ELSE p * pw[i - 1]
         IN pw[e] * Prod(h, P \ {p}, g)

\* a < b for finite a, b: the ratio a/b is below 1 iff its g-th root is
PosLess(a, b) ==
    LET r == HDiv(a, b)
        g == SetGCD({Abs(r[p]) : p \in DOMAIN r})
    IN /\ DOMAIN r # {}
       /\ Prod(r, {p \in DOMAIN r : r[p] > 0}, g) < Prod(r, {p \in DOMAIN r : r[p] < 0}, g)

Less(a, b) ==
    /\ a.k \in {"zero", "pos"}
    /\ b.k \in {"zero", "pos"}
    /\ IF b.k = "zero" THEN FALSE
       ELSE IF a.k = "zero" THEN TRUE
       ELSE PosLess(a.h, b.h)

Positive(a) == a.k \in {"pos", "inf"}
Finite(a) == a.k \in {"zero", "pos"}

-----------------------------------------------------------------------------
(* The widgets (lines 30-34, 50) and the values a user may try to enter.   *)

NumV == 3
NumK == 3

\* values typed into the v, K, rho and mu boxes and dragged on the phi slider;
\* the first of each is the widget's default value
VCands == <<Rat(1, 10), Rat(0, 1), Rat(1, 1), Rat(2, 1)>>
KCands == <<Rat(100, 1), Rat(0, 1), Rat(2, 1), Rat(400, 1)>>
VTyped == {VCands[i] : i \in 1..NumV} \cup {Rat(-1, 1)}
KTyped == {KCands[i] : i \in 1..NumK} \cup {Rat(-1, 1)}
RhoTyped == {Rat(1, 1), Rat(0, 1), Rat(-1, 1)}
MuTyped == {Rat(1, 1), Rat(1, 10000), Rat(1, 20000), Rat(0, 1)}
PhiTyped == {Rat(1, 4), Rat(1, 10000), Rat(4, 5), Rat(0, 1), Rat(9, 10), Rat(3, 20000)}

OptV == "v"              \* "渗流速度 v"
OptPhi == "phi"          \* "孔隙度 φ"
OptHeat == "heatmap"     \* "双参数热力图 (v-φ)"
OptContour == "contour"  \* "双参数等高线图 (v-φ)"
Options == <<OptV, OptPhi, OptHeat, OptContour>>

v_default == Rat(1, 10)
K_default == Rat(100, 1)
rho_default == Rat(1, 1)
mu_default == Rat(1, 1)
phi_default == Rat(1, 4)

v_min == Rat(0, 1)
K_min == Rat(0, 1)
rho_min == Rat(0, 1)
mu_min == Rat(1, 10000)
phi_min == Rat(1, 10000)
phi_max == Rat(4, 5)
phi_step == Rat(1, 10000)

\* st.number_input(min_value=m): the box only yields values >= m
NumberInput(m, x) == RatLeq(m, x)

\* st.slider(lo, hi, step=s): the handle only rests on lo + k*s within [lo, hi]
Slider(lo, hi, s, x) ==
    /\ RatLeq(lo, x)
    /\ RatLeq(x, hi)
    /\ RatMul(RatSub(x, lo), Rat(s.d, s.n)).d = 1

v_widget(x) == NumberInput(v_min, x)
K_widget(x) == NumberInput(K_min, x)
rho_widget(x) == NumberInput(rho_min, x)
\* mutant: the viscosity box without its min_value (any value >= 0 goes in)
mu_widget_NoMin(x) == NumberInput(Rat(0, 1), x)

mu_widget(x) == NumberInput(mu_min, x)
phi_widget(x) == Slider(phi_min, phi_max, phi_step, x)

-----------------------------------------------------------------------------
(* The formula and the sweeps (lines 39-43, 52-103).                       *)

C1750 == Real(Rat(35, 2))

\* (v * rho * (K ** 0.5)) / (17.50 * mu * (phi ** 1.5)), on reals
\* mutant: a misplaced parenthesis, 17.50 / mu * phi ** 1.5
Denominator_DivMu(mu_, phi_) == Mul(Div(C1750, mu_), Pow(phi_, 3))

Denominator(mu_, phi_) == Mul(Mul(C1750, mu_), Pow(phi_, 3))
Numerator(v_, K_, rho_) == Mul(Mul(v_, rho_), Pow(K_, 1))
\* mutant: phi ** 2 in place of phi ** 1.5
Formula_PhiSquared(v_, K_, rho_, mu_, phi_) ==
    Div(Numerator(v_, K_, rho_), Mul(Mul(C1750, mu_), Pow(phi_, 4)))

Formula(v_, K_, rho_, mu_, phi_) == Div(Numerator(v_, K_, rho_), Denominator(mu_, phi_))

\* mutant: >= 0 in place of > 0
Guard_NonStrict(v_, K_, rho_, mu_, phi_) ==
    /\ v_.n >= 0
    /\ K_.n >= 0
    /\ rho_.n >= 0
    /\ mu_.n >= 0
    /\ phi_.n >= 0

\* if v > 0 and K > 0 and rho > 0 and mu > 0 and phi > 0
Guard(v_, K_, rho_, mu_, phi_) ==
    /\ RatPositive(v_)
    /\ RatPositive(K_)
    /\ RatPositive(rho_)
    /\ RatPositive(mu_)
    /\ RatPositive(phi_)

\* the name Re is bound only in the true branch of the guard
Unbound == [k |-> "unbound", h |-> EmptyMap]

\* mutant: the namespace survives the rerun, so a failed guard leaves the
\* previous run's Re in place
ReBinding_Stale(v_, K_, rho_, mu_, phi_) ==
    IF Guard(v_, K_, rho_, mu_, phi_)
    THEN Formula(Real(v_), Real(K_), Real(rho_), Real(mu_), Real(phi_))
    ELSE Re

ReBinding(v_, K_, rho_, mu_, phi_) ==
    IF Guard(v_, K_, rho_, mu_, phi_)
    THEN Formula(Real(v_), Real(K_), Real(rho_), Real(mu_), Real(phi_))
    ELSE Unbound

Message(v_, K_, rho_, mu_, phi_) ==
    IF Guard(v_, K_, rho_, mu_, phi_) THEN "success" ELSE "warning"

\* mutant: endpoint=False, step = (stop - start)/num
linspace_NoEndpoint(start, stop, num) ==
    LET step == RatDivInt(RatSub(stop, start), num)
    IN [i \in 1..num |-> RatAdd(start, RatMul(Rat(i - 1, 1), step))]

\* np.linspace(start, stop, num): start + i*step, step = (stop - start)/(num - 1),
\* the last sample set to stop
linspace(start, stop, num) ==
    LET step == RatDivInt(RatSub(stop, start), num - 1)
    IN [i \in 1..num |->
          IF i = num THEN stop ELSE RatAdd(start, RatMul(Rat(i - 1, 1), step))]

v_lo == Rat(1, 100)
v_hi == Rat(2, 1)
phi_lo == Rat(1, 100)
phi_hi == Rat(4, 5)
LinePoints == 100
GridPoints == 50

asReal(xs) == [i \in DOMAIN xs |-> Real(xs[i])]

v_vals == linspace(v_lo, v_hi, LinePoints)
\* mutant: the upper end copied from the v branch (0.01 to 2.0)
phi_vals_CopiedRange == linspace(phi_lo, v_hi, LinePoints)
phi_vals == linspace(phi_lo, phi_hi, LinePoints)
v_grid == linspace(v_lo, v_hi, GridPoints)
phi_grid == linspace(phi_lo, phi_hi, GridPoints)
v_valsR == asReal(v_vals)
phi_valsR == asReal(phi_vals)

\* The values the sweeps can be asked for: the non-negative typed ones.
NonNeg(S) == {x \in S : x.n >= 0}
VDom == NonNeg(VTyped)
KDom == NonNeg(KTyped)
RhoDom == NonNeg(RhoTyped)
MuDom == NonNeg(MuTyped)
PhiDom == NonNeg(PhiTyped)

\* option == "渗流速度 v": df = {"v (cm/s)": v_vals, "Re": Re_vals};
\* the branch reads K, rho, mu and phi
VSweepRows(K_, rho_, mu_, phi_) ==
    LET Kr == Real(K_)
        rr == Real(rho_)
        mr == Real(mu_)
        pr == Real(phi_)
    IN [i \in 1..LinePoints |->
          [v |-> v_vals[i], Re |-> Formula(v_valsR[i], Kr, rr, mr, pr)]]

\* option == "孔隙度 φ": df = {"φ": phi_vals, "Re": Re_vals};
\* the branch reads v, K, rho and mu
PhiSweepRows(v_, K_, rho_, mu_) ==
    LET vr == Real(v_)
        Kr == Real(K_)
        rr == Real(rho_)
        mr == Real(mu_)
    IN [i \in 1..LinePoints |->
          [phi |-> phi_vals[i], Re |-> Formula(vr, Kr, rr, mr, phi_valsR[i])]]

\* mutant: indexing "ij", the two axes exchanged
meshgrid_ij(x, y) ==
    LET nx == Len(x)
        ny == Len(y)
    IN [X |-> [k \in 1..(nx * ny) |-> x[((k - 1) \div ny) + 1]],
        Y |-> [k \in 1..(nx * ny) |-> y[((k - 1) % ny) + 1]]]

\* np.meshgrid(x, y), default indexing "xy", each array flattened row-major:
\* X[i][j] = x[j] and Y[i][j] = y[i], at flat index len(x)*i + j
meshgrid(x, y) ==
    LET nx == Len(x)
        ny == Len(y)
    IN [X |-> [k \in 1..(nx * ny) |-> x[((k - 1) % nx) + 1]],
        Y |-> [k \in 1..(nx * ny) |-> y[((k - 1) \div nx) + 1]]]

V == meshgrid(v_grid, phi_grid).X
PHI == meshgrid(v_grid, phi_grid).Y
VR == asReal(V)
PHIR == asReal(PHI)

\* both grid options: df = {"v (cm/s)": V.flatten(), "φ": PHI.flatten(),
\* "Re": Re_vals.flatten()}; the branch reads K, rho and mu
GridRows(K_, rho_, mu_) ==
    LET Kr == Real(K_)
        rr == Real(rho_)
        mr == Real(mu_)
    IN [k \in 1..Len(V) |->
          [v |-> V[k], phi |-> PHI[k], Re |-> Formula(VR[k], Kr, rr, mr, PHIR[k])]]

\* The three branches tabulated over the values they read, so that a script
\* run looks its dataset up: XTable[args] = XRows(args).
VSweepTable == [a \in KDom, b \in RhoDom, c \in MuDom, d \in PhiDom |-> VSweepRows(a, b, c, d)]
PhiSweepTable == [a \in VDom, b \in KDom, c \in RhoDom, d \in MuDom |-> PhiSweepRows(a, b, c, d)]
GridTable == [a \in KDom, b \in RhoDom, c \in MuDom |-> GridRows(a, b, c)]

\* mutant: the sweep evaluated at the v box's value instead of at v_vals
VSweep_AtInput(v_, K_, rho_, mu_, phi_) ==
    [i \in 1..LinePoints |->
        [v |-> v_vals[i],
         Re |-> Formula(Real(v_), Real(K_), Real(rho_), Real(mu_), Real(phi_))]]

VSweep(v_, K_, rho_, mu_, phi_) == VSweepTable[K_, rho_, mu_, phi_]
PhiSweep(v_, K_, rho_, mu_, phi_) == PhiSweepTable[v_, K_, rho_, mu_]
GridSweep(v_, K_, rho_, mu_, phi_) == GridTable[K_, rho_, mu_]

SweepDataset(o, v_, K_, rho_, mu_, phi_) ==
    IF o = OptV THEN VSweep(v_, K_, rho_, mu_, phi_)
    ELSE IF o = OptPhi THEN PhiSweep(v_, K_, rho_, mu_, phi_)
    ELSE GridSweep(v_, K_, rho_, mu_, phi_)

NoFig == [kind |-> "none", levels |-> 0]

\* ax.plot / ax.contourf(levels=20) / ax.contour(levels=15)
Chart(o) ==
    IF o \in {OptV, OptPhi} THEN [kind |-> "plot", levels |-> 0]
    ELSE IF o = OptHeat THEN [kind |-> "contourf", levels |-> 20]
    ELSE [kind |-> "contour", levels |-> 15]

-----------------------------------------------------------------------------
(* The report exports (lines 133-206).                                     *)

NoReport == [kind |-> "none"]

head(d, n) == SubSeq(d, 1, IF Len(d) < n THEN Len(d) ELSE n)

WordHead == 5
PdfHead == 10

\* The parameter table reads the name Re: a NameError when it is unbound.
\* The six values are kept as numbers; their "%.6f" text is not modelled.
Export(b, v_, K_, rho_, mu_, phi_, Re_, fig_, df_) ==
    IF b = "none" THEN [report |-> NoReport, error |-> "none"]
    ELSE IF Re_ = Unbound THEN [report |-> NoReport, error |-> "NameError"]
    ELSE [report |-> [kind |-> IF b = "word" THEN "docx" ELSE "pdf",
                      params |-> <<v_, K_, rho_, mu_, phi_, Re_>>,
                      chart |-> fig_,
                      table |-> head(df_, IF b = "word" THEN WordHead ELSE PdfHead)],
          error |-> "none"]

-----------------------------------------------------------------------------
(* One script run, with the widget values it reads.                        *)

\* lines 30-103: Re and the message, then the chart and the dataset
Run(nv, nK, nrho, nmu, nphi, nopt) ==
    /\ v' = nv
    /\ K' = nK
    /\ rho' = nrho
    /\ mu' = nmu
    /\ phi' = nphi
    /\ option' = nopt
    /\ Re' = ReBinding(nv, nK, nrho, nmu, nphi)
    /\ msg' = Message(nv, nK, nrho, nmu, nphi)
    /\ fig' = Chart(nopt)
    /\ df' = SweepDataset(nopt, nv, nK, nrho, nmu, nphi)

\* lines 133-206: st.button is True only in the run its click triggers
Buttons(btn) ==
    /\ button' = btn
    /\ LET e == Export(btn, v', K', rho', mu', phi', Re', fig', df')
       IN report' = e.report /\ error' = e.error

Init ==
    /\ v = v_default
    /\ K = K_default
    /\ rho = rho_default
    /\ mu = mu_default
    /\ phi = phi_default
    /\ option = Options[1]
    /\ button = "none"
    /\ Re = ReBinding(v, K, rho, mu, phi)
    /\ msg = Message(v, K, rho, mu, phi)
    /\ fig = Chart(option)
    /\ df = SweepDataset(option, v, K, rho, mu, phi)
    /\ report = NoReport
    /\ error = "none"

SetV(x) ==
    /\ x # v
    /\ v_widget(x)
    /\ Run(x, K, rho, mu, phi, option)
    /\ Buttons("none")

SetK(x) ==
    /\ x # K
    /\ K_widget(x)
    /\ Run(v, x, rho, mu, phi, option)
    /\ Buttons("none")

SetRho(x) ==
    /\ x # rho
    /\ rho_widget(x)
    /\ Run(v, K, x, mu, phi, option)
    /\ Buttons("none")

SetMu(x) ==
    /\ x # mu
    /\ mu_widget(x)
    /\ Run(v, K, rho, x, phi, option)
    /\ Buttons("none")

SetPhi(x) ==
    /\ x # phi
    /\ phi_widget(x)
    /\ Run(v, K, rho, mu, x, option)
    /\ Buttons("none")

SelectOption(o) ==
    /\ o # option
    /\ Run(v, K, rho, mu, phi, o)
    /\ Buttons("none")

PressWord ==
    /\ Run(v, K, rho, mu, phi, option)
    /\ Buttons("word")

PressPdf ==
    /\ Run(v, K, rho, mu, phi, option)
    /\ Buttons("pdf")

Next ==
    \/ \E x \in VTyped : SetV(x)
    \/ \E x \in KTyped : SetK(x)
    \/ \E x \in RhoTyped : SetRho(x)
    \/ \E x \in MuTyped : SetMu(x)
    \/ \E x \in PhiTyped : SetPhi(x)
    \/ \E i \in DOMAIN Options : SelectOption(Options[i])
    \/ PressWord
    \/ PressPdf

Spec == Init /\ [][Next]_vars

-----------------------------------------------------------------------------
(* Properties of the render pass.                                          *)

GridOptions == {OptHeat, OptContour}
NoData == <<>>
Rows(o) == IF o \in GridOptions THEN GridPoints * GridPoints ELSE LinePoints
AllPositive == v.n > 0 /\ K.n > 0 /\ rho.n > 0 /\ mu.n > 0 /\ phi.n > 0

(* C1, as claimed: whenever one of v, K, rho, mu, phi is not strictly      *)
(* positive, the pass shows the warning and produces neither Re nor a      *)
(* chart nor a dataset, in every sweep mode.                               *)
C1_GuardSuppressesChart ==
    ~AllPositive => msg = "warning" /\ Re = Unbound /\ fig = NoFig /\ df = NoData

(* C1, amended: whenever one of the five inputs is not strictly positive,  *)
(* the pass shows the warning and binds no Re; the chart of the selected   *)
(* mode and its full dataset are produced all the same.                    *)
C1_GuardSuppressesReOnly ==
    ~AllPositive =>
        /\ msg = "warning"
        /\ Re = Unbound
        /\ fig # NoFig
        /\ fig.kind = (IF option = OptHeat THEN "contourf"
                       ELSE IF option = OptContour THEN "contour" ELSE "plot")
        /\ Len(df) = Rows(option)

C1_Witness ==
    /\ v.n = 0
    /\ K.n > 0 /\ rho.n > 0 /\ mu.n > 0 /\ phi.n > 0
    /\ option = OptHeat
    /\ msg = "warning"
    /\ Len(df) = GridPoints * GridPoints

\* Re * (17.5 * mu * phi^1.5) = v * rho * sqrt(K), for a bound, finite Re
IsFormulaValue(r, v_, K_, rho_, mu_, phi_) ==
    /\ r.k \in {"zero", "pos"}
    /\ Mul(r, Mul(Mul(Real(Rat(35, 2)), Real(mu_)), Pow(Real(phi_), 3)))
         = Mul(Mul(Real(v_), Real(rho_)), Pow(Real(K_), 1))

(* C2, as claimed: for v > 0, rho > 0, K >= 0, mu > 0, phi > 0 the pass    *)
(* produces Re = v*rho*sqrt(K) / (17.5*mu*phi^1.5).                        *)
C2_ReForNonNegativeK ==
    (v.n > 0 /\ rho.n > 0 /\ K.n >= 0 /\ mu.n > 0 /\ phi.n > 0) =>
        /\ msg = "success"
        /\ IsFormulaValue(Re, v, K, rho, mu, phi)

(* C2, amended: for v > 0, rho > 0, K > 0, mu > 0, phi > 0 the pass        *)
(* produces Re = v*rho*sqrt(K) / (17.5*mu*phi^1.5); for v = 0.1, K = 100,  *)
(* rho = 1, mu = 1, phi = 0.25 that is 1/2.1875 = 16/35, which lies within *)
(* half a unit of the sixth decimal of 0.457143.                           *)
C2_ReForPositiveK ==
    /\ AllPositive =>
        /\ msg = "success"
        /\ IsFormulaValue(Re, v, K, rho, mu, phi)
    /\ (v = Rat(1, 10) /\ K = Rat(100, 1) /\ rho = Rat(1, 1) /\ mu = Rat(1, 1)
          /\ phi = Rat(1, 4)) =>
        /\ Re = Real(Rat(16, 35))
        /\ Less(Real(Rat(914285, 2000000)), Re)
        /\ Less(Re, Real(Rat(914287, 2000000)))

C2_Witness ==
    /\ v = Rat(1, 10) /\ K = Rat(2, 1) /\ rho = Rat(1, 1)
    /\ mu = Rat(1, 10000) /\ phi = Rat(4, 5)
    /\ msg = "success"
    /\ Re.k = "pos"

\* the i-th of n evenly spaced samples of [lo, hi], i = 0..n-1, as a fraction
Sample(lo, hi, n, i) == Rat(lo.n * hi.d * (n - 1) + i * (hi.n * lo.d - lo.n * hi.d), lo.d * hi.d * (n - 1))

\* the samples the claims name, with their reals, written out once
C3_v == [i \in 0..99 |-> Sample(Rat(1, 100), Rat(2, 1), 100, i)]
C3_vR == [i \in 0..99 |-> Real(C3_v[i])]
C4_phi == [i \in 0..99 |-> Sample(Rat(1, 100), Rat(4, 5), 100, i)]
C4_phiR == [i \in 0..99 |-> Real(C4_phi[i])]
C5_v == [j \in 0..49 |-> Sample(Rat(1, 100), Rat(2, 1), 50, j)]
C5_vR == [j \in 0..49 |-> Real(C5_v[j])]
C5_phi == [i \in 0..49 |-> Sample(Rat(1, 100), Rat(4, 5), 50, i)]
C5_phiR == [i \in 0..49 |-> Real(C5_phi[i])]

(* C3: in mode "sweep v" the dataset has exactly 100 rows; row i has       *)
(* v_i = 0.01 + i*(2.0 - 0.01)/99, so the first v is 0.01, the last is 2.0 *)
(* and consecutive v differ by the same positive step; each row's Re is    *)
(* the formula at (v_i, K, rho, mu, phi) with the current K, rho, mu, phi. *)
C3_VSweepDataset ==
    option = OptV =>
        /\ Len(df) = 100
        /\ df[1].v = Rat(1, 100)
        /\ df[100].v = Rat(2, 1)
        /\ \A i \in 0..99 :
              /\ DOMAIN df[i + 1] = {"v", "Re"}
              /\ df[i + 1].v = C3_v[i]
              /\ df[i + 1].Re = Formula(C3_vR[i], Real(K), Real(rho), Real(mu), Real(phi))
        /\ \A i \in 1..99 :
              /\ RatLess(df[i].v, df[i + 1].v)
              /\ RatSub(df[i + 1].v, df[i].v) = RatSub(df[2].v, df[1].v)

C3_Witness ==
    /\ option = OptV
    /\ K = Rat(2, 1)
    /\ phi = Rat(4, 5)
    /\ Len(df) = 100
    /\ df[100].v = Rat(2, 1)
    /\ df[100].Re.k = "pos"

(* C4: in mode "sweep phi" the dataset has exactly 100 rows; row i has     *)
(* phi_i = 0.01 + i*(0.8 - 0.01)/99, so the first phi is 0.01, the last is *)
(* 0.8 and consecutive phi differ by the same positive step; each row's Re *)
(* is the formula at (v, K, rho, mu, phi_i) with the current v, K, rho, mu.*)
C4_PhiSweepDataset ==
    option = OptPhi =>
        /\ Len(df) = 100
        /\ df[1].phi = Rat(1, 100)
        /\ df[100].phi = Rat(4, 5)
        /\ \A i \in 0..99 :
              /\ DOMAIN df[i + 1] = {"phi", "Re"}
              /\ df[i + 1].phi = C4_phi[i]
              /\ df[i + 1].Re = Formula(Real(v), Real(K), Real(rho), Real(mu), C4_phiR[i])
        /\ \A i \in 1..99 :
              /\ RatLess(df[i].phi, df[i + 1].phi)
              /\ RatSub(df[i + 1].phi, df[i].phi) = RatSub(df[2].phi, df[1].phi)

C4_Witness ==
    /\ option = OptPhi
    /\ v = Rat(1, 1)
    /\ K = Rat(2, 1)
    /\ Len(df) = 100
    /\ df[100].phi = Rat(4, 5)
    /\ df[100].Re.k = "pos"

\* the grid the claim describes: row 50*i + j holds (v_j, phi_i, Re(v_j, phi_i))
C5_Grid(K_, rho_, mu_) ==
    [k \in 1..2500 |->
        LET i == (k - 1) \div 50
            j == (k - 1) % 50
        IN [v |-> C5_v[j], phi |-> C5_phi[i],
            Re |-> Formula(C5_vR[j], Real(K_), Real(rho_), Real(mu_), C5_phiR[i])]]

C5_Expected == [a \in KDom, b \in RhoDom, c \in MuDom |-> C5_Grid(a, b, c)]

(* C5: in both grid modes the dataset is exactly the 2500 triples          *)
(* (v_j, phi_i, Re(v_j, K, rho, mu, phi_i)), i = 0..49 outer and j = 0..49 *)
(* inner, at row 50*i + j, v_j and phi_i being 50 evenly spaced values of  *)
(* [0.01, 2.0] and [0.01, 0.8]: every (v_j, phi_i) pair appears once.      *)
C5_GridDataset ==
    option \in GridOptions =>
        /\ Len(df) = 2500
        /\ df = C5_Expected[K, rho, mu]
        /\ Cardinality({<<df[k].v, df[k].phi>> : k \in 1..Len(df)}) = 2500
        /\ df[1].v = Rat(1, 100) /\ df[1].phi = Rat(1, 100)
        /\ df[2500].v = Rat(2, 1) /\ df[2500].phi = Rat(4, 5)

C5_Witness ==
    /\ option = OptContour
    /\ K = Rat(2, 1)
    /\ mu = Rat(1, 10000)
    /\ Len(df) = 2500
    /\ df[2].v # df[1].v
    /\ df[2].phi = df[1].phi
    /\ df[51].phi # df[1].phi
    /\ df[2500].Re.k = "pos"

(* C6: in every pass in which the Word or the PDF button is pressed, for   *)
(* any reachable inputs and any mode, the export completes: the report's   *)
(* parameter table holds v, K, rho, mu, phi and Re of that pass, with the  *)
(* current chart and the first 5 (Word) or 10 (PDF) rows of the dataset;   *)
(* it never fails for want of Re, the chart or the dataset.                *)
C6_ExportAlwaysCompletes ==
    button # "none" =>
        /\ error = "none"
        /\ report.kind = (IF button = "word" THEN "docx" ELSE "pdf")
        /\ Re # Unbound
        /\ report.params = <<v, K, rho, mu, phi, Re>>
        /\ report.chart = fig /\ fig # NoFig
        /\ report.table = SubSeq(df, 1, IF button = "word" THEN 5 ELSE 10)

\* the i-th Re of the current dataset
ReAt(i) == df[i].Re

(* C7: with the other four parameters strictly positive, Re is strictly    *)
(* increasing in v and in K and strictly decreasing in mu and in phi: the  *)
(* Re of the current valid pass is strictly ordered against the Re of any  *)
(* valid input that differs from the current one in that parameter alone;  *)
(* the Re column of the v sweep is strictly increasing and that of the phi *)
(* sweep strictly decreasing.                                              *)
C7_Monotone ==
    /\ AllPositive =>
        /\ \A x \in VDom : RatLess(v, x) =>
              Less(Re, ReBinding(x, K, rho, mu, phi))
        /\ \A x \in KDom : RatLess(K, x) =>
              Less(Re, ReBinding(v, x, rho, mu, phi))
        /\ \A x \in {y \in MuDom : mu_widget(y)} : RatLess(mu, x) =>
              Less(ReBinding(v, K, rho, x, phi), Re)
        /\ \A x \in {y \in PhiDom : phi_widget(y)} : RatLess(phi, x) =>
              Less(ReBinding(v, K, rho, mu, x), Re)
    /\ (option = OptV /\ K.n > 0 /\ rho.n > 0 /\ mu.n > 0 /\ phi.n > 0) =>
          \A i \in 1..(Len(df) - 1) : Less(ReAt(i), ReAt(i + 1))
    /\ (option = OptPhi /\ v.n > 0 /\ K.n > 0 /\ rho.n > 0 /\ mu.n > 0) =>
          \A i \in 1..(Len(df) - 1) : Less(ReAt(i + 1), ReAt(i))

C7_Witness ==
    /\ AllPositive
    /\ option = OptPhi
    /\ K = Rat(2, 1)
    /\ mu = Rat(1, 10000)
    /\ phi = Rat(1, 10000)
    /\ Less(ReAt(100), ReAt(1))
    /\ Less(ReBinding(v, K, rho, Rat(1, 1), phi), Re)

(* C8: whatever came before, what a pass produces is a function of the     *)
(* five current inputs and the current mode alone: Re is the formula's     *)
(* value when all five inputs are positive and unbound otherwise (never a  *)
(* value left from an earlier pass), the message follows the same test,    *)
(* and the chart and the dataset are those of the current mode and inputs. *)
C8_Stateless ==
    /\ Re = (IF AllPositive
             THEN Formula(Real(v), Real(K), Real(rho), Real(mu), Real(phi))
             ELSE Unbound)
    /\ msg = (IF AllPositive THEN "success" ELSE "warning")
    /\ fig = Chart(option)
    /\ df = (IF option = OptV THEN VSweepRows(K, rho, mu, phi)
             ELSE IF option = OptPhi THEN PhiSweepRows(v, K, rho, mu)
             ELSE C5_Expected[K, rho, mu])
    /\ (button = "none") => (report = NoReport /\ error = "none")

C8_Witness ==
    /\ button = "pdf"
    /\ ~AllPositive
    /\ Re = Unbound
    /\ error = "NameError"
    /\ option = OptPhi

C9_phiGridR == asReal(phi_grid)

C10_SweptInputIgnored ==
    /\ option = OptV =>
          \A x \in VDom : df = SweepDataset(option, x, K, rho, mu, phi)
    /\ option = OptPhi =>
          \A y \in PhiDom : df = SweepDataset(option, v, K, rho, mu, y)
    /\ option \in GridOptions =>
          \A x \in VDom, y \in PhiDom, o \in GridOptions :
             df = SweepDataset(o, x, K, rho, mu, y)

C10_Witness ==
    /\ option = OptV
    /\ v = Rat(0, 1)
    /\ K = Rat(2, 1)
    /\ df = SweepDataset(OptV, Rat(1, 1), K, rho, mu, phi)
    /\ ReAt(1).k = "pos"

====
